---- MODULE Spec2Model ----
(***************************************************************************)
(* Model of the L0 link-layer framing core (src/l0/comm): the sequence     *)
(* discipline and the packet encoder of packet.rs, and the byte-at-a-time  *)
(* receive state machine of parser.rs.                                     *)
(*                                                                         *)
(* Two specifications share the variables:                                 *)
(*   Spec      a Parser driven by arbitrary parse / timeout / reset calls; *)
(*   SpecLink  a sender that encodes one Packet into a sink while the      *)
(*             receiving Parser is synchronised and then fed the sink's    *)
(*             bytes one at a time;                                        *)
(*   SpecSeq   the two Sequencer functions applied to a PacketSeq;         *)
(*   SpecLong  the Parser of Spec on a line that carries the length bytes  *)
(*             0x7F and 0x80.                                              *)
(***************************************************************************)
EXTENDS Integers, Sequences, FiniteSets, TLC

(***************************************************************************)
(* Bounds of the model.                                                    *)
(***************************************************************************)
\* payload positions (from the start of a payload) whose byte the
\* environment chooses freely; the bytes after them are drawn from FillBytes
FreePrefix == 1
\* the longest payload the sender of SpecLink encodes
MaxDataLen == 256

(***************************************************************************)
(* u8 arithmetic.                                                          *)
(***************************************************************************)
U8 == 0..255

RECURSIVE BitAnd(_, _)
BitAnd(a, b) ==
    IF a = 0 \/ b = 0 THEN 0
    ELSE (IF a % 2 = 1 /\ b % 2 = 1 THEN 1 ELSE 0) + 2 * BitAnd(a \div 2, b \div 2)

RECURSIVE BitOr(_, _)
BitOr(a, b) ==
    IF a = 0 THEN b
    ELSE IF b = 0 THEN a
    ELSE (IF a % 2 = 1 \/ b % 2 = 1 THEN 1 ELSE 0) + 2 * BitOr(a \div 2, b \div 2)

\* x << n and x >> n on a u8
Shl8(x, n) == (x * (2 ^ n)) % 256
Shr8(x, n) == x \div (2 ^ n)

\* `n as u8` for a usize n
AsU8(n) == n % 256

(***************************************************************************)
(* packet.rs: Sequencer for PacketSeq.                                     *)
(***************************************************************************)
\* next with the wrap test off by one (n > 0xef)
next_gt_ef(n) == IF n > 239 THEN 1 ELSE n + 1

\* n + 1 is the unreduced sum: a value above 255 is an overflow of the u8
next(n) == IF n >= 239 THEN 1 ELSE n + 1

is_valid(n) == n > 0 /\ n < 240

(***************************************************************************)
(* packet.rs: Packet.                                                      *)
(***************************************************************************)
None == [none |-> TRUE]

Packet(s, c, d) == [seq |-> s, code |-> c, data |-> d]

new_with(s, c) == Packet(s, c, <<>>)

new_with_seq(s) == new_with(s, 0)

\* encode_head with the short-header test off by one (head[2] <= 7)
encode_head_le7(pkt) ==
    LET h2 == AsU8(Len(pkt.data))
        h1 == BitAnd(pkt.code, 143)
    IN  IF h2 <= 7
        THEN <<pkt.seq, BitOr(h1, BitAnd(Shl8(h2, 4), 112))>>
        ELSE <<pkt.seq, BitOr(h1, 112), h2>>

\* the 3-byte head array of encode, after the branch has patched head[1]
encode_head(pkt) ==
    LET h2 == AsU8(Len(pkt.data))
        h1 == BitAnd(pkt.code, 143)
    IN  IF h2 < 7
        THEN <<pkt.seq, BitOr(h1, BitAnd(Shl8(h2, 4), 112))>>
        ELSE <<pkt.seq, BitOr(h1, 112), h2>>

\* encode returning only the count of the first write
encode_head_count(pkt) ==
    LET head  == encode_head(pkt)
        bytes == IF Len(pkt.data) > 0 THEN head \o pkt.data ELSE head
    IN  [bytes |-> bytes, count |-> Len(head)]

\* encode on a sink whose write accepts the whole slice: the bytes appended
\* to the sink and the returned count
encode(pkt) ==
    LET head  == encode_head(pkt)
        bytes == IF Len(pkt.data) > 0 THEN head \o pkt.data ELSE head
    IN  [bytes |-> bytes, count |-> Len(head) + (IF Len(pkt.data) > 0 THEN Len(pkt.data) ELSE 0)]

(***************************************************************************)
(* parser.rs: constants, SyncState, ParseResult.                           *)
(***************************************************************************)
SYNC_REQ == 255
SYNC_ACK == 254

SYNC_STATE_READY == 1
SYNC_STATE_RECV == 2

is_ready(s) == BitAnd(s, SYNC_STATE_READY) # 0

is_receiving(s) == BitAnd(s, SYNC_STATE_RECV) # 0

ParseResult_new(sy, st) == [sync |-> sy, state |-> st, packet |-> None]

\* new_packet reporting the bits of the reception state just left
new_packet_receiving(pkt) ==
    [sync |-> 0, state |-> BitOr(SYNC_STATE_READY, SYNC_STATE_RECV), packet |-> pkt]

new_packet(pkt) == [sync |-> 0, state |-> SYNC_STATE_READY, packet |-> pkt]

\* timer_action that ignores the sync field
timer_action_state_only(r) ==
    IF is_receiving(r.state) THEN "Restart"
    ELSE IF is_ready(r.state) THEN "Stop"
    ELSE "NoChange"

\* timer_action testing the READY bit first
timer_action_ready_first(r) ==
    IF is_ready(r.state) THEN "Stop"
    ELSE IF is_receiving(r.state) \/ r.sync = SYNC_REQ THEN "Restart"
    ELSE "NoChange"

timer_action(r) ==
    IF is_receiving(r.state) \/ r.sync = SYNC_REQ THEN "Restart"
    ELSE IF is_ready(r.state) THEN "Stop"
    ELSE "NoChange"

(***************************************************************************)
(* parser.rs: Parser.  A parser value is a record p with the struct's      *)
(* fields; every method returns the parser after the call (p), the         *)
(* ParseResult (r) and whether an unwrap on an empty slot panicked.        *)
(***************************************************************************)
ParsingState ==
    {"SyncAck", "SyncReqSeq", "SyncAckSeq", "MsgSeq", "MsgAckSeq", "MsgCode", "MsgLen", "MsgData"}

Parser_new == [state |-> "SyncAck", peer_seq |-> 0, packet |-> None, data_len |-> 0]

Out(p, r) == [p |-> p, r |-> r, panic |-> FALSE]

Panic(p) == [p |-> p, r |-> ParseResult_new(0, 0), panic |-> TRUE]

\* reset reporting the state bits instead of SYNC_REQ
reset_no_sync(p) == Out([p EXCEPT !.state = "SyncAck"], ParseResult_new(0, 0))

reset(p) == Out([p EXCEPT !.state = "SyncAck"], ParseResult_new(SYNC_REQ, 0))

\* state bits with MsgAckSeq reported like a handshake state
state_bits_ack_recv(s) ==
    CASE s = "SyncAck" -> 0
      [] s \in {"SyncReqSeq", "SyncAckSeq", "MsgAckSeq"} -> SYNC_STATE_RECV
      [] s = "MsgSeq" -> SYNC_STATE_READY
      [] s \in {"MsgCode", "MsgLen", "MsgData"} ->
            BitOr(SYNC_STATE_READY, SYNC_STATE_RECV)

state_bits(s) ==
    CASE s = "SyncAck" -> 0
      [] s \in {"SyncReqSeq", "SyncAckSeq"} -> SYNC_STATE_RECV
      [] s = "MsgSeq" -> SYNC_STATE_READY
      [] s \in {"MsgAckSeq", "MsgCode", "MsgLen", "MsgData"} ->
            BitOr(SYNC_STATE_READY, SYNC_STATE_RECV)

result_from_state(p) == Out(p, ParseResult_new(0, state_bits(p.state)))

transit_and_result(p, s) == result_from_state([p EXCEPT !.state = s])

\* packet_ready that copies the packet and leaves it in the slot
packet_ready_keep(p) == Out([p EXCEPT !.state = "MsgSeq"], new_packet(p.packet))

packet_ready(p) ==
    Out([p EXCEPT !.state = "MsgSeq", !.packet = None], new_packet(p.packet))

\* SyncAck treating a byte that is not a sync signal as a desync
parse_SyncAck_junk_resets(p, b) ==
    IF b = SYNC_REQ THEN transit_and_result(p, "SyncReqSeq")
    ELSE IF b = SYNC_ACK THEN transit_and_result(p, "SyncAckSeq")
    ELSE reset(p)

parse_SyncAck(p, b) ==
    IF b = SYNC_REQ THEN transit_and_result(p, "SyncReqSeq")
    ELSE IF b = SYNC_ACK THEN transit_and_result(p, "SyncAckSeq")
    ELSE result_from_state(p)

\* SyncReqSeq answering like SyncAckSeq, without SYNC_ACK
parse_SyncReqSeq_no_ack(p, b) ==
    IF is_valid(b)
    THEN transit_and_result([p EXCEPT !.peer_seq = b], "MsgSeq")
    ELSE reset(p)

parse_SyncReqSeq(p, b) ==
    IF is_valid(b)
    THEN Out([p EXCEPT !.peer_seq = b, !.state = "MsgSeq"],
             ParseResult_new(SYNC_ACK, SYNC_STATE_READY))
    ELSE reset(p)

\* SyncAckSeq that does not store the sequence byte
parse_SyncAckSeq_keep_seq(p, b) ==
    IF is_valid(b) THEN transit_and_result(p, "MsgSeq") ELSE reset(p)

parse_SyncAckSeq(p, b) ==
    IF is_valid(b)
    THEN transit_and_result([p EXCEPT !.peer_seq = b], "MsgSeq")
    ELSE reset(p)

\* MsgSeq reusing the packet left in the slot
parse_MsgSeq_keep_slot(p, b) ==
    IF b = SYNC_REQ THEN transit_and_result(p, "SyncReqSeq")
    ELSE IF b = SYNC_ACK THEN transit_and_result(p, "MsgAckSeq")
    ELSE IF b = p.peer_seq
    THEN transit_and_result(
            [p EXCEPT !.packet = IF @ = None THEN new_with_seq(b) ELSE @,
                      !.peer_seq = next(p.peer_seq)],
            "MsgCode")
    ELSE reset(p)

\* MsgSeq accepting any valid sequence byte
parse_MsgSeq_any_valid(p, b) ==
    IF b = SYNC_REQ THEN transit_and_result(p, "SyncReqSeq")
    ELSE IF b = SYNC_ACK THEN transit_and_result(p, "MsgAckSeq")
    ELSE IF is_valid(b)
    THEN transit_and_result(
            [p EXCEPT !.packet = new_with_seq(b), !.peer_seq = next(p.peer_seq)],
            "MsgCode")
    ELSE reset(p)

parse_MsgSeq(p, b) ==
    IF b = SYNC_REQ THEN transit_and_result(p, "SyncReqSeq")
    ELSE IF b = SYNC_ACK THEN transit_and_result(p, "MsgAckSeq")
    ELSE IF b = p.peer_seq
    THEN transit_and_result(
            [p EXCEPT !.packet = new_with_seq(b), !.peer_seq = next(p.peer_seq)],
            "MsgCode")
    ELSE reset(p)

\* MsgAckSeq accepting any valid sequence byte
parse_MsgAckSeq_any_valid(p, b) ==
    IF is_valid(b) THEN transit_and_result(p, "MsgSeq") ELSE reset(p)

parse_MsgAckSeq(p, b) ==
    IF b = p.peer_seq THEN transit_and_result(p, "MsgSeq") ELSE reset(p)

\* MsgCode storing the code byte unmasked
parse_MsgCode_no_mask(p, b) ==
    IF p.packet = None THEN Panic(p)
    ELSE LET q == [p EXCEPT !.packet.code = b]
             data_len == BitAnd(Shr8(b, 4), 7)
         IN  IF data_len = 0 THEN packet_ready(q)
             ELSE IF data_len = 7 THEN transit_and_result(q, "MsgLen")
             ELSE transit_and_result([q EXCEPT !.data_len = data_len], "MsgData")

parse_MsgCode(p, b) ==
    IF p.packet = None THEN Panic(p)
    ELSE LET q == [p EXCEPT !.packet.code = BitAnd(b, 143)]
             data_len == BitAnd(Shr8(b, 4), 7)
         IN  IF data_len = 0 THEN packet_ready(q)
             ELSE IF data_len = 7 THEN transit_and_result(q, "MsgLen")
             ELSE transit_and_result([q EXCEPT !.data_len = data_len], "MsgData")

\* MsgLen with the length test off by one (b > 0x80)
parse_MsgLen_gt80(p, b) ==
    IF b > 128 THEN reset(p)
    ELSE IF b = 0 THEN packet_ready(p)
    ELSE transit_and_result([p EXCEPT !.data_len = b], "MsgData")

parse_MsgLen(p, b) ==
    IF b >= 128 THEN reset(p)
    ELSE IF b = 0 THEN packet_ready(p)
    ELSE transit_and_result([p EXCEPT !.data_len = b], "MsgData")

\* MsgData with the completion test off by one (len > data_len)
parse_MsgData_one_more(p, b) ==
    IF p.packet = None THEN Panic(p)
    ELSE LET q == [p EXCEPT !.packet.data = Append(@, b)]
         IN  IF Len(q.packet.data) > q.data_len
             THEN packet_ready(q)
             ELSE result_from_state(q)

parse_MsgData(p, b) ==
    IF p.packet = None THEN Panic(p)
    ELSE LET q == [p EXCEPT !.packet.data = Append(@, b)]
         IN  IF Len(q.packet.data) >= q.data_len
             THEN packet_ready(q)
             ELSE result_from_state(q)

parse(p, b) ==
    CASE p.state = "SyncAck" -> parse_SyncAck(p, b)
      [] p.state = "SyncReqSeq" -> parse_SyncReqSeq(p, b)
      [] p.state = "SyncAckSeq" -> parse_SyncAckSeq(p, b)
      [] p.state = "MsgSeq" -> parse_MsgSeq(p, b)
      [] p.state = "MsgAckSeq" -> parse_MsgAckSeq(p, b)
      [] p.state = "MsgCode" -> parse_MsgCode(p, b)
      [] p.state = "MsgLen" -> parse_MsgLen(p, b)
      [] p.state = "MsgData" -> parse_MsgData(p, b)

\* timeout that does not resync a parser still awaiting sync
timeout_idle_SyncAck(p) ==
    IF p.state \notin {"MsgSeq", "SyncAck"} THEN reset(p) ELSE result_from_state(p)

timeout(p) == IF p.state # "MsgSeq" THEN reset(p) ELSE result_from_state(p)

(***************************************************************************)
(* State.                                                                  *)
(***************************************************************************)
VARIABLES
    state, peer_seq, packet, data_len,  \* the fields of struct Parser
    panicked,                           \* an unwrap() on an empty slot panicked
    res,                                \* the ParseResult of the last call
    op, inb, pst,                       \* the last call, its byte, the parsing state it found
    synced, restarted,                  \* a handshake has completed / a result asked for Restart
    hcode,                              \* the code byte of the packet being received or just emitted
    hseq, hdata,                        \* its sequence byte and the payload bytes consumed for it
    stale_slot,                         \* the slot held an abandoned packet when it was started
    sess_seq, sess_n,                   \* the sequence byte of the last handshake not followed by
                                        \* a desync (0: none), the packets emitted since
    timer,                              \* the caller's timer is armed
    pkt, w, count,                      \* the sender's Packet, its sink, encode's return value
    lpc, fed, mode,                     \* the link's step, bytes of w fed, the sync signal used
    line,                               \* the byte values the line carries
    sq                                  \* a PacketSeq and what next / is_valid returned for it

parser_vars == <<state, peer_seq, packet, data_len, panicked>>
call_vars ==
    <<res, op, inb, pst, synced, restarted, hcode, hseq, hdata, stale_slot, sess_seq, sess_n, timer>>
sender_vars == <<pkt, w, count>>
link_vars == <<lpc, fed, mode>>
env_vars == <<line, sq>>
vars == <<parser_vars, call_vars, sender_vars, link_vars, env_vars>>

Self == [state |-> state, peer_seq |-> peer_seq, packet |-> packet, data_len |-> data_len]

(***************************************************************************)
(* The bytes the environment puts on the line.                             *)
(***************************************************************************)
\* 0x00 0x01 0x02 0x80 0x92 0xEF 0xF0 SYNC_ACK SYNC_REQ
Bytes == {0, 1, 2, 128, 146, 239, 240, SYNC_ACK, SYNC_REQ}

FillBytes == {SYNC_REQ}

\* a payload byte past the free prefix is a fill byte
LineBytes ==
    IF state = "MsgData" /\ packet # None /\ Len(packet.data) >= FreePrefix
    THEN FillBytes
    ELSE line

(***************************************************************************)
(* Calls on the Parser.                                                    *)
(***************************************************************************)
ParserInit ==
    /\ state = Parser_new.state
    /\ peer_seq = Parser_new.peer_seq
    /\ packet = Parser_new.packet
    /\ data_len = Parser_new.data_len
    /\ panicked = FALSE
    /\ res = ParseResult_new(0, 0)
    /\ op = "new"
    /\ inb = 0
    /\ pst = "SyncAck"
    /\ synced = FALSE
    /\ restarted = FALSE
    /\ hcode = 0
    /\ hseq = 0
    /\ hdata = <<>>
    /\ stale_slot = FALSE
    /\ sess_seq = 0
    /\ sess_n = 0
    /\ timer = FALSE

\* the call consumed the sequence byte of a new packet
Started(o, name) == name = "parse" /\ state = "MsgSeq" /\ o.p.state = "MsgCode"

\* the call left a packet under reception or emitted one
InPacket(o) == o.p.state \in {"MsgCode", "MsgLen", "MsgData"} \/ o.r.packet # None

\* the call accepted the sequence byte of a handshake
Accepted(o, name) ==
    name = "parse" /\ state \in {"SyncReqSeq", "SyncAckSeq"} /\ o.p.state = "MsgSeq"

\* the caller applies the timer action of a result to its timer
apply_timer(t, r) ==
    CASE timer_action(r) = "Restart" -> TRUE
      [] timer_action(r) = "Stop" -> FALSE
      [] OTHER -> t

\* the parser and the caller's record of the call after a call returned o
Returned(o, name, b) ==
    /\ state' = o.p.state
    /\ peer_seq' = o.p.peer_seq
    /\ packet' = o.p.packet
    /\ data_len' = o.p.data_len
    /\ panicked' = o.panic
    /\ res' = o.r
    /\ op' = name
    /\ inb' = b
    /\ pst' = state
    /\ synced' = (synced \/ (state \in {"SyncReqSeq", "SyncAckSeq"} /\ o.p.state = "MsgSeq"))
    /\ restarted' = (restarted \/ timer_action(o.r) = "Restart")
    /\ hcode' = IF name = "parse" /\ state = "MsgCode" THEN b
                ELSE IF o.p.state \in {"MsgLen", "MsgData"} \/ o.r.packet # None THEN hcode
                ELSE 0
    /\ hseq' = IF Started(o, name) THEN b
               ELSE IF InPacket(o) THEN hseq
               ELSE 0
    /\ hdata' = IF Started(o, name) THEN <<>>
                ELSE IF name = "parse" /\ state = "MsgData" THEN Append(hdata, b)
                ELSE IF InPacket(o) THEN hdata
                ELSE <<>>
    /\ stale_slot' = IF Started(o, name) THEN packet # None
                     ELSE IF InPacket(o) THEN stale_slot
                     ELSE FALSE
    /\ sess_seq' = IF Accepted(o, name) THEN b
                   ELSE IF o.r.sync = SYNC_REQ THEN 0
                   ELSE sess_seq
    /\ sess_n' = IF Accepted(o, name) \/ o.r.sync = SYNC_REQ THEN 0
                 ELSE IF o.r.packet # None THEN sess_n + 1
                 ELSE sess_n
    /\ timer' = apply_timer(timer, o.r)

CallParse(b) == ~panicked /\ Returned(parse(Self, b), "parse", b)

CallTimeout == ~panicked /\ Returned(timeout(Self), "timeout", 0)

CallReset == ~panicked /\ Returned(reset(Self), "reset", 0)

(***************************************************************************)
(* Spec: a Parser under arbitrary calls.                                   *)
(***************************************************************************)
\* no sequence value under test
SeqIdle == [n |-> 0, next |-> 0, valid |-> FALSE, called |-> {}]

\* no sender and no link
SenderIdle ==
    /\ pkt = new_with(0, 0)
    /\ w = <<>>
    /\ count = 0
    /\ lpc = "off"
    /\ fed = 0
    /\ mode = 0

Init ==
    /\ ParserInit
    /\ SenderIdle
    /\ line = Bytes
    /\ sq = SeqIdle

Parse == \E b \in LineBytes : CallParse(b) /\ UNCHANGED <<sender_vars, link_vars, env_vars>>

Timeout == CallTimeout /\ UNCHANGED <<sender_vars, link_vars, env_vars>>

Reset == CallReset /\ UNCHANGED <<sender_vars, link_vars, env_vars>>

\* the caller's first call is reset()
ResetFirst == op = "new" /\ Reset

AfterReset == op # "new" /\ (Parse \/ Timeout \/ Reset)

NextReset == ResetFirst \/ AfterReset

\* Spec restricted to the call sequences that begin with reset()
SpecReset == Init /\ [][NextReset]_vars

Next == Parse \/ Timeout \/ Reset

Spec == Init /\ [][Next]_vars

(***************************************************************************)
(* SpecLink: the sender holds one Packet; the receiving Parser is          *)
(* synchronised on the packet's seq (SYNC_ACK, seq or SYNC_REQ, seq), the  *)
(* sender encodes the packet into the sink w, and the sink's bytes are fed *)
(* to the Parser one by one.                                               *)
(***************************************************************************)
LinkSeqs == {1, 239}

\* 0x02, 0x70, 0xFF
LinkCodes == {2, 112, 255}

PayloadBytes == {1, SYNC_ACK, SYNC_REQ}

DataLens == {0, 1, 2, 6, 7, 127, 128, 255, MaxDataLen, MaxDataLen + 7}

\* n bytes: a freely chosen prefix, then the fill byte f
Payload(n, pre, f) == [i \in 1..n |-> IF i <= FreePrefix THEN pre[i] ELSE f]

Payloads ==
    {Payload(n, pre, f) : n \in DataLens, pre \in [1..FreePrefix -> PayloadBytes], f \in PayloadBytes}

LinkPackets == {Packet(s, c, d) : s \in LinkSeqs, c \in LinkCodes, d \in Payloads}

InitLink ==
    /\ ParserInit
    /\ pkt \in LinkPackets
    /\ mode \in {SYNC_ACK, SYNC_REQ}
    /\ w = <<>>
    /\ count = 0
    /\ lpc = "sync"
    /\ fed = 0
    /\ line = Bytes
    /\ sq = SeqIdle

LinkSync ==
    /\ lpc = "sync"
    /\ CallParse(mode)
    /\ lpc' = "seq"
    /\ UNCHANGED <<sender_vars, fed, mode, env_vars>>

LinkSeq ==
    /\ lpc = "seq"
    /\ CallParse(pkt.seq)
    /\ lpc' = "encode"
    /\ UNCHANGED <<sender_vars, fed, mode, env_vars>>

Encode ==
    /\ lpc = "encode"
    /\ w' = w \o encode(pkt).bytes
    /\ count' = encode(pkt).count
    /\ lpc' = "feed"
    /\ UNCHANGED <<parser_vars, call_vars, pkt, fed, mode, env_vars>>

Feed ==
    /\ lpc = "feed"
    /\ fed < Len(w)
    /\ CallParse(w[fed + 1])
    /\ fed' = fed + 1
    /\ UNCHANGED <<sender_vars, lpc, mode, env_vars>>

NextLink == LinkSync \/ LinkSeq \/ Encode \/ Feed

SpecLink == InitLink /\ [][NextLink]_vars

(***************************************************************************)
(* SpecSeq: next and is_valid applied to one PacketSeq value.              *)
(***************************************************************************)
InitSeq ==
    /\ ParserInit
    /\ SenderIdle
    /\ line = Bytes
    /\ sq \in {[SeqIdle EXCEPT !.n = b] : b \in U8}

CallNext ==
    /\ "next" \notin sq.called
    /\ sq' = [sq EXCEPT !.next = next(sq.n), !.called = @ \cup {"next"}]
    /\ UNCHANGED <<parser_vars, call_vars, sender_vars, link_vars, line>>

CallIsValid ==
    /\ "is_valid" \notin sq.called
    /\ sq' = [sq EXCEPT !.valid = is_valid(sq.n), !.called = @ \cup {"is_valid"}]
    /\ UNCHANGED <<parser_vars, call_vars, sender_vars, link_vars, line>>

NextSeq == CallNext \/ CallIsValid

SpecSeq == InitSeq /\ [][NextSeq]_vars

(***************************************************************************)
(* SpecLong: Spec on a line whose bytes include the longest legal extended *)
(* length 0x7F and the first illegal one 0x80.                             *)
(***************************************************************************)
\* 0x7F 0x80 SYNC_ACK
LongBytes == {127, 128, SYNC_ACK}

InitLong ==
    /\ ParserInit
    /\ SenderIdle
    /\ line = LongBytes
    /\ sq = SeqIdle

SpecLong == InitLong /\ [][Next]_vars

(***************************************************************************)
(* Properties of the encoder and of the encode / parse round trip          *)
(* (SpecLink).                                                             *)
(***************************************************************************)
\* C1: encode round trip.  For a packet with at most 127 payload bytes and a
\* valid seq, once the Parser is synchronised on seq and fed the encoded
\* bytes one by one, every result before the last carries no packet and the
\* last carries a packet with the same seq, the same data and the code
\* masked with 0x8F, whatever the payload bytes are.
RoundTrip ==
    (lpc = "feed" /\ Len(pkt.data) <= 127) =>
        IF fed < Len(w)
        THEN res.packet = None
        ELSE res = [sync |-> 0, state |-> SYNC_STATE_READY,
                    packet |-> Packet(pkt.seq, BitAnd(pkt.code, 143), pkt.data)]

\* a 127-byte payload starting with SYNC_ACK and continuing with bytes equal
\* to the sequence number has been delivered after a SYNC_REQ handshake
RoundTripWitness ==
    /\ lpc = "feed"
    /\ fed = Len(w)
    /\ mode = SYNC_REQ
    /\ Len(pkt.data) = 127
    /\ pkt.data[1] = SYNC_ACK
    /\ pkt.data[127] = pkt.seq
    /\ pkt.code = 255
    /\ res.packet # None

\* the header and the count the encoding rule gives when the header is
\* chosen by the length l
EncodingRule(l) ==
    LET len == Len(pkt.data)
        H1  == BitOr(BitAnd(pkt.code, 143), IF l < 7 THEN BitAnd(l * 16, 112) ELSE 112)
    IN  /\ w = <<pkt.seq, H1>> \o (IF l >= 7 THEN <<l>> ELSE <<>>) \o pkt.data
        /\ count = IF l < 7 THEN 2 + len ELSE 3 + len
        /\ count = Len(w)

\* C10 as stated: for every packet the header is chosen by len = data.len(),
\* H2 = len is written when len >= 7, and the count is 2 + len or 3 + len.
EncodingRuleAnyLen == lpc = "feed" => EncodingRule(Len(pkt.data))

\* C10 as amended: the header is chosen by, and H2 carries, the length
\* truncated to a byte (len mod 256); the count is 2 + len when that byte is
\* below 7 and 3 + len otherwise.  For len <= 255 this is the rule as stated.
EncodingRuleU8 == lpc = "feed" => EncodingRule(Len(pkt.data) % 256)

\* a payload longer than 255 bytes has been encoded with a 3-byte header
EncodingRuleWitness ==
    /\ lpc = "feed"
    /\ Len(pkt.data) > 255
    /\ Len(w) = Len(pkt.data) + 3
    /\ w[3] = Len(pkt.data) - 256

(***************************************************************************)
(* Properties of the Parser under arbitrary calls (Spec).                  *)
(***************************************************************************)
ValidSeq == 1..239

R(sy, st, p) == [sync |-> sy, state |-> st, packet |-> p]

READY == 1
RECV == 2

is_sync_signal(b) == b = 255 \/ b = 254

fields == <<state, peer_seq, packet, data_len>>

PeerSyncResults ==
    /\ (op = "parse" /\ pst \in {"SyncAck", "MsgSeq"} /\ inb = 255) =>
            (res = R(0, RECV, None) /\ state = "SyncReqSeq")
    /\ (op = "parse" /\ pst = "SyncReqSeq" /\ inb \in ValidSeq) =>
            (res = R(254, READY, None) /\ peer_seq = inb /\ state = "MsgSeq")
    /\ (op = "parse" /\ pst = "SyncReqSeq" /\ inb \notin ValidSeq) =>
            (res = R(255, 0, None) /\ state = "SyncAck")
    /\ res.sync = 254 => (op = "parse" /\ pst = "SyncReqSeq" /\ inb \in ValidSeq)

PeerSyncThenPacket ==
    (res.sync = 254 /\ op' = "parse" /\ inb' = inb) =>
        (state' = "MsgCode" /\ packet' = Packet(inb, 0, <<>>) /\ res' = R(0, READY + RECV, None))

\* C2: peer-initiated sync.  SYNC_REQ consumed in SyncAck or MsgSeq gives
\* (0, RECV, None); a valid sequence byte b next gives (SYNC_ACK, READY, None)
\* with peer_seq = b in MsgSeq, and a packet starting with b is then
\* accepted; an invalid byte next resets.  No other call returns SYNC_ACK.
PeerSync == []PeerSyncResults /\ [][PeerSyncThenPacket]_vars

\* a SYNC_REQ handshake on 0xEF has just been answered with SYNC_ACK by a
\* parser that was synchronised before
PeerSyncWitness ==
    /\ op = "parse"
    /\ pst = "SyncReqSeq"
    /\ inb = 239
    /\ res = R(254, READY, None)
    /\ state = "MsgSeq"
    /\ peer_seq = 239
    /\ packet # None

SeqAccepted ==
    (state = "MsgSeq" /\ op' = "parse" /\ ~is_sync_signal(inb')) =>
        IF inb' = peer_seq
        THEN /\ peer_seq' = (IF peer_seq = 239 THEN 1 ELSE peer_seq + 1)
             /\ state' = "MsgCode"
             /\ packet' = Packet(inb', 0, <<>>)
             /\ res' = R(0, READY + RECV, None)
        ELSE /\ state' = "SyncAck"
             /\ res' = R(255, 0, None)

StaleSeqResets ==
    (res.packet # None /\ op' = "parse" /\ inb' = res.packet.seq) =>
        (state' = "SyncAck" /\ res' = R(255, 0, None))

AbsorbedAfterReset ==
    (state = "SyncAck" /\ op' = "parse" /\ ~is_sync_signal(inb')) =>
        (state' = "SyncAck" /\ res' = R(0, 0, None))

\* C3: sequence check after sync.  In MsgSeq a byte that is not a sync signal
\* starts a packet only if it equals peer_seq (peer_seq advances, MsgCode,
\* (0, READY|RECV)); any other byte, the sequence of the packet just received
\* included, resets with (SYNC_REQ, 0, None), and later bytes that are not
\* sync signals are absorbed with (0, 0, None).
SeqCheck == [][SeqAccepted /\ StaleSeqResets /\ AbsorbedAfterReset]_vars

\* the sequence byte of the packet just received was fed again and reset
\* the parser
SeqCheckWitness ==
    /\ op = "parse"
    /\ pst = "MsgSeq"
    /\ inb = 1
    /\ peer_seq = 2
    /\ packet = None
    /\ state = "SyncAck"
    /\ res = R(255, 0, None)

ExtLenStep ==
    (state = "MsgLen" /\ op' = "parse") =>
        IF inb' >= 128
        THEN state' = "SyncAck" /\ res' = R(255, 0, None)
        ELSE IF inb' = 0
        THEN state' = "MsgSeq" /\ res' = R(0, READY, Packet(packet.seq, packet.code, <<>>))
        ELSE state' = "MsgData" /\ data_len' = inb' /\ res'.packet = None

ExtLenEntered ==
    state = "MsgLen" => (op = "parse" /\ pst = "MsgCode" /\ (inb \div 16) % 8 = 7)

\* C4: extended length.  In MsgLen a byte >= 0x80 resets without a packet,
\* 0 completes the packet with empty data and returns to MsgSeq, any other
\* byte becomes the expected length in MsgData; MsgLen is entered only by a
\* code byte whose length nibble is 7.
ExtLen == []ExtLenEntered /\ [][ExtLenStep]_vars

\* the extended length byte 0x80 has just reset the parser
ExtLenWitness ==
    /\ op = "parse"
    /\ pst = "MsgLen"
    /\ inb = 128
    /\ state = "SyncAck"
    /\ res = R(255, 0, None)

\* C5: timeout in MsgSeq returns (0, READY, None) and changes no field of
\* the parser; in every other parsing state it acts like reset: the state
\* becomes SyncAck, the result is (SYNC_REQ, 0, None), the other fields stay.
TimeoutRule ==
    [][op' = "timeout" =>
        IF state = "MsgSeq"
        THEN res' = R(0, READY, None) /\ UNCHANGED fields
        ELSE /\ state' = "SyncAck"
             /\ res' = R(255, 0, None)
             /\ UNCHANGED <<peer_seq, packet, data_len>>]_vars

\* a timeout hit a fresh parser that was still awaiting sync
TimeoutRuleWitness ==
    /\ op = "timeout"
    /\ pst = "SyncAck"
    /\ ~synced
    /\ state = "SyncAck"
    /\ res = R(255, 0, None)

\* C6: the timer action of a result follows the parser: Stop exactly when
\* the call leaves the parser idle and synchronised (MsgSeq), Restart in
\* every handshake or reception state, NoChange only while awaiting sync;
\* no result is Stop before the first successful sync, and a Restart result
\* precedes the first Stop.
TimerMonotonic ==
    /\ (timer_action(res) = "Stop") <=> (state = "MsgSeq")
    /\ state \notin {"SyncAck", "MsgSeq"} => timer_action(res) = "Restart"
    /\ timer_action(res) = "NoChange" => state = "SyncAck"
    /\ timer_action(res) = "Stop" => (synced /\ restarted)
    /\ ~synced => state \in {"SyncAck", "SyncReqSeq", "SyncAckSeq"}

\* the first sync has just completed with the (SYNC_ACK, READY) result
TimerMonotonicWitness ==
    /\ op = "parse"
    /\ pst = "SyncReqSeq"
    /\ res = R(254, READY, None)
    /\ timer_action(res) = "Stop"
    /\ packet = None
    /\ synced

\* C7: every emitted packet has code & 0x70 = 0, and its code is the code
\* byte consumed for it with bits 0x70 cleared.
ReservedBitsCleared ==
    res.packet # None =>
        /\ (res.packet.code \div 16) % 8 = 0
        /\ res.packet.code = ((hcode \div 128) * 128) + (hcode % 16)

\* a packet whose code byte was 0xFF has been emitted with its payload
ReservedBitsWitness ==
    /\ res.packet # None
    /\ hcode = 255
    /\ res.packet.code = 143
    /\ Len(res.packet.data) = 2

JunkStep ==
    (state = "SyncAck" /\ op' = "parse" /\ ~is_sync_signal(inb')) =>
        (res' = R(0, 0, None) /\ UNCHANGED fields)

AckHandshake ==
    /\ (op = "parse" /\ pst = "SyncAck" /\ inb = 254) =>
            (state = "SyncAckSeq" /\ res = R(0, RECV, None))
    /\ (op = "parse" /\ pst = "SyncAckSeq" /\ inb \in ValidSeq) =>
            (state = "MsgSeq" /\ peer_seq = inb /\ res = R(0, READY, None))

\* C8: in SyncAck every byte other than SYNC_REQ and SYNC_ACK gives
\* (0, 0, None) and leaves the parser as it was, and a SYNC_ACK, seq
\* handshake from SyncAck completes with (0, RECV) then (0, READY) and
\* peer_seq = seq whatever was absorbed before.
JunkIgnored == []AckHandshake /\ [][JunkStep]_vars

\* the invalid sequence value 0xF0 was absorbed while awaiting sync
JunkIgnoredWitness ==
    /\ op = "parse"
    /\ pst = "SyncAck"
    /\ inb = 240
    /\ state = "SyncAck"
    /\ res = R(0, 0, None)

\* C9: reset leaves the parser in SyncAck and returns (SYNC_REQ, 0, None)
\* from every state, and a second immediate reset returns the same result
\* and leaves the parser unchanged.
ResetRule ==
    /\ [](op = "reset" => (state = "SyncAck" /\ res = R(255, 0, None)))
    /\ [][op' = "reset" => UNCHANGED <<peer_seq, packet, data_len>>]_vars
    /\ [][(op = "reset" /\ op' = "reset") => UNCHANGED <<fields, res>>]_vars

\* reset interrupted a packet in its payload
ResetRuleWitness ==
    /\ op = "reset"
    /\ pst = "MsgData"
    /\ packet # None
    /\ Len(packet.data) > 0
    /\ state = "SyncAck"

(***************************************************************************)
(* Properties of the sequence discipline (SpecSeq).                        *)
(***************************************************************************)
\* C11: for every 8-bit b, is_valid(b) iff b is in 1..0xEF; next(b) is in
\* 1..0xEF, is b + 1 for valid b < 0xEF, is 1 for 0xEF and for 0xF0..0xFF;
\* the addition never leaves the 8-bit range.
SeqDiscipline ==
    /\ "is_valid" \in sq.called => (sq.valid <=> sq.n \in 1..239)
    /\ "next" \in sq.called =>
        /\ sq.next \in 1..239
        /\ sq.n \in 1..238 => sq.next = sq.n + 1
        /\ sq.n = 239 => sq.next = 1
        /\ sq.n \in 240..255 => sq.next = 1
        /\ sq.next <= 255

\* next and is_valid have been applied to 0xEF
SeqDisciplineWitness ==
    /\ sq.called = {"next", "is_valid"}
    /\ sq.n = 239
    /\ sq.next = 1
    /\ sq.valid

(***************************************************************************)
(* Properties of packet emission and of the session (Spec, SpecLong,       *)
(* SpecReset).                                                             *)
(***************************************************************************)
InPkt == {"MsgCode", "MsgLen", "MsgData"}

Succ(x) == IF x = 239 THEN 1 ELSE x + 1

RECURSIVE NextPow(_, _)
NextPow(x, k) == IF k = 0 THEN x ELSE Succ(NextPow(x, k - 1))

\* C12: a result carries a packet only when the byte just consumed by parse
\* completed one (a code byte with length nibble 0, an extended length 0, the
\* last declared payload byte), and each such byte gives one; that result is
\* (0, READY, Some) with the parser in MsgSeq; reset and timeout return none.
EmissionResult ==
    /\ res.packet # None =>
        /\ op = "parse"
        /\ res.sync = 0
        /\ res.state = READY
        /\ state = "MsgSeq"
        /\ \/ pst = "MsgCode" /\ (inb \div 16) % 8 = 0
           \/ pst = "MsgLen" /\ inb = 0
           \/ pst = "MsgData" /\ Len(res.packet.data) = data_len
    /\ (op = "parse" /\ pst = "MsgCode" /\ (inb \div 16) % 8 = 0) => res.packet # None
    /\ (op = "parse" /\ pst = "MsgLen" /\ inb = 0) => res.packet # None
    /\ op \in {"reset", "timeout"} => res.packet = None

\* an extended length byte 0 has completed a packet
EmissionResultWitness ==
    /\ op = "parse"
    /\ pst = "MsgLen"
    /\ inb = 0
    /\ res.state = READY
    /\ res.packet # None
    /\ res.packet.data = <<>>

\* C13: the payload in the slot and the payload of every emitted packet
\* have at most 127 bytes; in MsgData the expected length is in 1..127 and
\* fewer bytes than that have been collected.
PayloadBound ==
    /\ packet # None => Len(packet.data) <= 127
    /\ res.packet # None => Len(res.packet.data) <= 127
    /\ state = "MsgData" =>
        (data_len \in 1..127 /\ packet # None /\ Len(packet.data) < data_len)

\* a packet with the longest payload, 127 bytes, has been emitted
PayloadBoundWitness ==
    /\ res.packet # None
    /\ Len(res.packet.data) = 127
    /\ data_len = 127

BitsOf(st) ==
    CASE st = "SyncAck" -> 0
      [] st \in {"SyncReqSeq", "SyncAckSeq"} -> RECV
      [] st = "MsgSeq" -> READY
      [] OTHER -> READY + RECV

\* C14: for every byte parse consumes without emitting a packet, the state
\* field of the result is the bits the table gives for the parsing state the
\* parser is in after the call, resets and the SYNC_ACK answer included.
StateBitsMapping ==
    (op = "parse" /\ res.packet = None) => res.state = BitsOf(state)

\* a byte that does not confirm a mid-stream SYNC_ACK has reset the parser
StateBitsWitness ==
    /\ op = "parse"
    /\ pst = "MsgAckSeq"
    /\ state = "SyncAck"
    /\ res = R(255, 0, None)

MidAckConsumed ==
    (state = "MsgSeq" /\ op' = "parse" /\ inb' = 254) =>
        /\ state' = "MsgAckSeq"
        /\ res' = R(0, READY + RECV, None)
        /\ UNCHANGED <<peer_seq, packet, data_len>>

MidAckConfirmed ==
    (state = "MsgAckSeq" /\ op' = "parse") =>
        IF inb' = peer_seq
        THEN state' = "MsgSeq" /\ res' = R(0, READY, None) /\ UNCHANGED <<peer_seq, packet, data_len>>
        ELSE state' = "SyncAck" /\ res' = R(255, 0, None)

MidAckThenPacket ==
    (pst = "MsgAckSeq" /\ state = "MsgSeq" /\ op' = "parse" /\ inb' = inb) =>
        (state' = "MsgCode" /\ packet' = Packet(inb, 0, <<>>))

\* C15: SYNC_ACK consumed in MsgSeq gives MsgAckSeq and (0, READY|RECV,
\* None); a next byte equal to peer_seq gives MsgSeq and (0, READY, None)
\* with peer_seq unchanged and no packet, and the packet with that sequence
\* is then accepted; any other next byte resets.
MidStreamAck == [][MidAckConsumed /\ MidAckConfirmed /\ MidAckThenPacket]_vars

\* a mid-stream SYNC_ACK was confirmed with the next expected sequence,
\* which is not the sequence of the handshake
MidStreamAckWitness ==
    /\ op = "parse"
    /\ pst = "MsgAckSeq"
    /\ state = "MsgSeq"
    /\ inb = peer_seq
    /\ sess_n > 0
    /\ peer_seq # sess_seq
    /\ res = R(0, READY, None)

EmittedIsConsumed ==
    /\ res.packet # None =>
        res.packet = Packet(hseq, ((hcode \div 128) * 128) + (hcode % 16), hdata)
    /\ (op = "parse" /\ pst # "SyncAck" /\ state = "SyncAck") => res = R(255, 0, None)
    /\ (op \in {"reset", "timeout"} /\ pst \in InPkt) =>
        (state = "SyncAck" /\ res = R(255, 0, None))

AbandonedNotEmitted == state \notin InPkt => res'.packet = None

\* C16: a byte a state rejects resets with sync = SYNC_REQ; a packet
\* interrupted by a reset or a timeout is never emitted, and every emitted
\* packet consists of exactly the sequence byte, the code byte and the
\* payload bytes consumed for it, nothing of an abandoned packet.
DesyncDiscards == []EmittedIsConsumed /\ [][AbandonedNotEmitted]_vars

\* a packet with a payload was emitted although the slot still held an
\* abandoned packet when its sequence byte arrived
DesyncDiscardsWitness ==
    /\ res.packet # None
    /\ stale_slot
    /\ Len(res.packet.data) > 0
    /\ packet = None

\* C17: whenever the parser is in a state that reads peer_seq, peer_seq is
\* valid and is the sequence byte of the most recent handshake advanced once
\* per packet received since; after a desync no such state is reached before
\* the next handshake; every emitted packet has a valid seq.
PeerSeqFresh ==
    /\ state \in {"MsgSeq", "MsgAckSeq"} =>
        /\ peer_seq \in ValidSeq
        /\ sess_seq \in ValidSeq
        /\ peer_seq = NextPow(sess_seq, sess_n)
    /\ sess_seq = 0 => state \in {"SyncAck", "SyncReqSeq", "SyncAckSeq"}
    /\ res.packet # None => res.packet.seq \in ValidSeq

\* the parser is idle after a handshake on 0x01 that followed a desync of a
\* session in which peer_seq had another value
PeerSeqFreshWitness ==
    /\ state = "MsgSeq"
    /\ op = "parse"
    /\ pst = "SyncAckSeq"
    /\ sess_seq = 1
    /\ peer_seq = 1
    /\ packet # None
    /\ packet.seq = 239

SlotOccupied ==
    /\ ~panicked
    /\ state \in InPkt => packet # None
    /\ (op = "parse" /\ pst \in InPkt /\ state = "MsgSeq") => res.packet # None

SlotEmptiedOnEmit == (packet # None /\ packet' = None) <=> (res'.packet # None)

\* C18: in MsgCode, MsgLen and MsgData the slot is occupied, no unwrap
\* fails, packet_ready never returns an empty packet, and the slot is
\* emptied exactly when a packet is emitted.
SlotInvariant == []SlotOccupied /\ [][SlotEmptiedOnEmit]_vars

\* the last payload byte emptied the slot into the result
SlotInvariantWitness ==
    /\ op = "parse"
    /\ pst = "MsgData"
    /\ state = "MsgSeq"
    /\ packet = None
    /\ res.packet # None
    /\ Len(res.packet.data) = 6

\* C19: the k-th packet emitted since a handshake that accepted s, with no
\* desync in between, has seq next^(k-1)(s): the first has seq s and each
\* following one the successor of the one before, wrapping 0xEF to 1.
InOrder ==
    res.packet # None =>
        /\ sess_seq \in ValidSeq
        /\ sess_n >= 1
        /\ res.packet.seq = NextPow(sess_seq, sess_n - 1)

\* the packet after the one with seq 0xEF has been emitted with seq 1
InOrderWitness ==
    /\ res.packet # None
    /\ sess_seq = 239
    /\ sess_n = 2
    /\ res.packet.seq = 1

\* C20: in a call sequence that begins with reset(), a caller that applies
\* the timer action of every result has its timer armed exactly when the
\* parser is not in MsgSeq.
TimerCoverage == op # "new" => (timer <=> state # "MsgSeq")

\* after a reset a byte was absorbed in SyncAck with NoChange and the timer
\* is still armed
TimerCoverageWitness ==
    /\ op = "parse"
    /\ state = "SyncAck"
    /\ res = R(0, 0, None)
    /\ timer_action(res) = "NoChange"
    /\ timer

====
